---- MODULE Spec2Model ----
(***************************************************************************)
(* Model of data_stream/data_stream.py: the DataProxyService lifecycle     *)
(* (startup_event, start, stop, shutdown_event) and the proxy_data         *)
(* handler of GET /data/{filename}; main with the command line, the        *)
(* PROXY_* environment and the signal handling; the resolution of the SSH  *)
(* configuration and GET /health; the file server on the remote host.      *)
(*                                                                         *)
(* The libraries the program calls (sshtunnel, paramiko, httpx, FastAPI,   *)
(* uvicorn) are the environment: every call into them is a step that       *)
(* either succeeds or raises, chosen nondeterministically (the release     *)
(* calls of stop included), and what a failed acquisition leaves half-open *)
(* is chosen nondeterministically as well.                                 *)
(*   Spec     the application as uvicorn drives it, with GET /data and     *)
(*            GET /health, ended by one exit signal.                       *)
(*   SpecApi  the lifecycle plus direct calls of DataProxyService.stop and *)
(*            DataProxyService.start by a caller of the class.             *)
(*   SpecSig  Spec plus further signals while uvicorn is shutting down.    *)
(*   SpecMain the program from main on, for every command line, every      *)
(*            PROXY_* environment, every ~/.ssh/config and remote host     *)
(*            state, with GET /health; no GET /data requests.              *)
(***************************************************************************)
EXTENDS Integers, Sequences, FiniteSets, TLC

\* ------------------------------------------------------------------ bounds
NReq == 2            \* number of GET /data requests that may overlap
MaxBody == 3         \* longest upstream body, in bytes
NetChunk == 2        \* bytes the HTTP client reads from the network at a time
MaxStopCalls == 2    \* direct calls of stop by a caller of the class (SpecApi)
MaxStartCalls == 1   \* further calls of start by a caller of the class (SpecApi)

Req == 1..NReq

\* --------------------------------------------------------------- upstream
\* The remote file server behind the tunnel serves two files, f1 (whose size
\* is chosen in Init) and f2; "nofile" does not exist and "secret" is refused.
DataFiles == {"f1", "f2"}
Files == DataFiles \cup {"nofile", "secret"}

VARIABLES
    \* DataProxyService and the application lifecycle
    pc,           \* position of the lifecycle (startup_event .. shutdown_event)
    tunnel,       \* self.tunnel: "None" or "obj"
    ssh_client,   \* self.ssh_client: "None" or "obj"
    client_open,  \* self.client (httpx.AsyncClient) exists and is not closed
    sock_open,    \* the listening socket of the forwarder in self.tunnel is open
    tun_session,  \* the SSH transport of the forwarder in self.tunnel is open
    ssh_session,  \* the SSH session of the client in self.ssh_client is open
    startErr,     \* the step of start that failed, "none" if none
    raised,       \* the error that surfaced from start / stop, "none" if none
    caller,       \* who called the running stop: "start", "shutdown", "api"
    log,          \* the startup and teardown steps attempted, in order
    stopCalls,    \* number of direct stop calls made (SpecApi)
    startCalls,   \* number of further start calls made (SpecApi)
    leaked,       \* what is open on a forwarder or an SSH client that a later
                  \* start has replaced in self.tunnel / self.ssh_client
    \* the upstream file server
    size,         \* length in bytes of the remote file f1
    \* per-request state of proxy_data
    rpc,          \* position of the handler
    rfile,        \* the filename path parameter
    conn,         \* the request's httpx.AsyncClient (upstream connection) is open
    content,      \* response body bytes read from upstream so far
    queue,        \* chunks iterfile has still to yield
    out,          \* chunks forwarded to the caller so far
    rstatus,      \* status the caller sees (0: nothing yet)
    rdetail,      \* detail of the HTTPException the caller sees, "None" if none
    rmedia,       \* media_type given to StreamingResponse
    rheaders,     \* headers given to StreamingResponse
    cancelled,    \* the caller has disconnected
    upreq,        \* number of requests sent upstream for this request
    failed,       \* the transport failure the request met, "none" if none
    \* the command line, the files and the remote host
    argv,         \* the parsed command line of main
    sshfile,      \* ~/.ssh/config: whether it exists, and its Host entries
    \* the process
    environ,      \* os.environ, the PROXY_* variables
    settings,     \* proxy_service.settings, "None" before the startup event
    ssh_config,   \* proxy_service.ssh_config, "None" before the startup event
    path,         \* the branch _get_ssh_config took: "none", "alias", "explicit"
    health,       \* the last answer of GET /health, "None" if none
    remote,       \* the file-serving processes running on the remote host
    sig,          \* uvicorn's exit flags: "none", "should_exit", "force_exit"
    exit_code     \* exit code of the process, -1 while it runs

svcVars == <<pc, tunnel, ssh_client, client_open, sock_open, tun_session,
             ssh_session, startErr, raised, caller, log, stopCalls, startCalls, leaked>>
envVars == <<size, argv, sshfile>>
procVars == <<environ, settings, ssh_config, path, health, remote, sig,
              exit_code>>
reqVars == <<rpc, rfile, conn, content, queue, out, rstatus, rdetail, rmedia,
             rheaders, cancelled, upreq, failed>>
vars == <<svcVars, envVars, reqVars, procVars>>

\* ------------------------------------------------------- upstream answers
\* The bodies: f1 is size bytes 1, 2, 3, ..; f2 is the two bytes 11, 12; the
\* page sent with a 404 or a 403 is one byte.
ErrorPage == <<99>>

UpstreamBody(f) ==
    CASE f = "f1" -> [i \in 1..size |-> i]
      [] f = "f2" -> <<11, 12>>
      [] OTHER    -> ErrorPage

UpstreamStatus(f) ==
    CASE f \in DataFiles -> 200
      [] f = "nofile"    -> 404
      [] OTHER           -> 403

\* The header lines the upstream server writes, as <<name, value>> pairs.
\* The server writes the names in a letter case of its own, and sends f2
\* without a content type.
WireHeaders(f) ==
    LET n == ToString(Len(UpstreamBody(f)))
    IN  CASE f = "f1" -> {<<"Content-Type", "application/pdf">>,
                          <<"Content-Length", n>>, <<"ETag", "f1">>}
          [] f = "f2" -> {<<"CONTENT-LENGTH", n>>, <<"etag", "f2">>}
          [] OTHER    -> {<<"content-type", "text/html">>, <<"content-length", n>>}

\* str.lower() on the header names that occur.
Lower(k) ==
    CASE k \in {"Content-Type", "CONTENT-TYPE", "content-type"}       -> "content-type"
      [] k \in {"Content-Length", "CONTENT-LENGTH", "content-length"} -> "content-length"
      [] k \in {"ETag", "ETAG", "etag"}                               -> "etag"
      [] OTHER                                                        -> k

\* The header items of the upstream response as response.headers.items()
\* hands them to the handler: httpx gives every name in lower case,
\* whatever the server wrote.
UpstreamHeaders(f) == {<<Lower(kv[1]), kv[2]>> : kv \in WireHeaders(f)}

\* ---------------------------------------------------------- configuration
\* Python's None is "None"; an environment variable that is not set is Unset.
Unset == "<unset>"

\* `if x:` / `not x` on an Optional[str]: None and the empty string are false.
Truthy(x) == x # "None" /\ x # ""

\* The command lines main may be given. An option that is absent is None
\* after parse_args; --data-path and the ports are the same in all of them.
Argvs ==
    [ssh_host_alias : {"None", "", "gpu"},
     ssh_host       : {"None", "", "h.org"},
     ssh_username   : {"None", "", "bob"},
     ssh_key_path   : {"None", "id_bob"},
     data_path      : {"/data"},
     local_port     : {8000},
     remote_port    : {8001},
     fastapi_port   : {5001}]

\* The command line the service of Spec was started with.
ArgvAlias ==
    [ssh_host_alias |-> "gpu", ssh_host |-> "None", ssh_username |-> "None",
     ssh_key_path |-> "None", data_path |-> "/data", local_port |-> 8000,
     remote_port |-> 8001, fastapi_port |-> 5001]

\* ~/.ssh/config: absent, or one Host entry, with or without HostName and
\* User, for the alias "gpu" or for another host.
HostEntries ==
    [host : {"gpu", "other"}, hostname : {"None", "gpu.example.org"},
     user : {"None", "alice"}]
NoSshFile == [exists |-> FALSE, entries |-> {}]
SshFiles == {NoSshFile} \cup {[exists |-> TRUE, entries |-> {e}] : e \in HostEntries}
SshFileGpu ==
    [exists |-> TRUE,
     entries |-> {[host |-> "gpu", hostname |-> "gpu.example.org",
                   user |-> "alice"]}]

\* The PROXY_* variables the settings are read from.
EnvNames == {"PROXY_SSH_HOST_ALIAS", "PROXY_SSH_HOST", "PROXY_SSH_USERNAME",
             "PROXY_SSH_KEY_PATH", "PROXY_DATA_PATH", "PROXY_LOCAL_PORT",
             "PROXY_REMOTE_PORT", "PROXY_FASTAPI_PORT"}

\* The environments main may be started in: the SSH variables may be left
\* over from the shell (an earlier export), the others are not set.
EmptyEnv == [n \in EnvNames |-> Unset]
PreEnvs ==
    {[EmptyEnv EXCEPT !["PROXY_SSH_HOST_ALIAS"] = a,
                      !["PROXY_SSH_HOST"] = h,
                      !["PROXY_SSH_USERNAME"] = u] :
        a \in {Unset, "", "old"}, h \in {Unset, "old.org"},
        u \in {Unset, "olduser"}}

\* str(port) of lines 233-235 and the int the settings parse it back to.
Str(n) == ToString(n)
ParseInt(s) ==
    CASE s = "8000" -> 8000
      [] s = "8001" -> 8001
      [] s = "5000" -> 5000
      [] s = "5001" -> 5001

\* main, lines 224-235: the assignments to os.environ for a command line
\* that passed the checks. A variable main does not assign keeps the value
\* it had.
SetEnviron(env, a) ==
    LET ssh == IF Truthy(a.ssh_host_alias)
               THEN [env EXCEPT !["PROXY_SSH_HOST_ALIAS"] = a.ssh_host_alias]
               ELSE [env EXCEPT !["PROXY_SSH_HOST"] = a.ssh_host,
                                !["PROXY_SSH_USERNAME"] = a.ssh_username,
                                !["PROXY_SSH_KEY_PATH"] =
                                    IF Truthy(a.ssh_key_path) THEN a.ssh_key_path
                                    ELSE @]
    IN  [ssh EXCEPT !["PROXY_DATA_PATH"] = a.data_path,
                    !["PROXY_LOCAL_PORT"] = Str(a.local_port),
                    !["PROXY_REMOTE_PORT"] = Str(a.remote_port),
                    !["PROXY_FASTAPI_PORT"] = Str(a.fastapi_port)]

\* Settings(), lines 24-38: every field is read from its PROXY_ variable;
\* an optional field whose variable is not set is None, a port whose
\* variable is not set has its default. An empty value is the empty string.
Settings(env) ==
    LET opt(n) == IF env[n] = Unset THEN "None" ELSE env[n]
        port(n, d) == IF env[n] = Unset THEN d ELSE ParseInt(env[n])
    IN  [ssh_host_alias |-> opt("PROXY_SSH_HOST_ALIAS"),
         ssh_host       |-> opt("PROXY_SSH_HOST"),
         ssh_username   |-> opt("PROXY_SSH_USERNAME"),
         ssh_key_path   |-> opt("PROXY_SSH_KEY_PATH"),
         data_path      |-> env["PROXY_DATA_PATH"],
         local_port     |-> port("PROXY_LOCAL_PORT", 8000),
         remote_port    |-> port("PROXY_REMOTE_PORT", 8001),
         fastapi_port   |-> port("PROXY_FASTAPI_PORT", 5000)]

\* paramiko's SSHConfig.lookup on the file loaded by _load_ssh_config (no
\* entries when the file is absent): the options of the entry of the alias;
\* hostname is the alias itself when no entry sets it, user is missing
\* ("None") when no entry sets it.
Lookup(file, host_alias) ==
    LET entries == IF file.exists
                   THEN {e \in file.entries : e.host = host_alias}
                   ELSE {}
    IN  IF entries = {}
        THEN [hostname |-> host_alias, user |-> "None"]
        ELSE LET e == CHOOSE x \in entries : TRUE
             IN  [hostname |-> IF e.hostname = "None" THEN host_alias
                               ELSE e.hostname,
                  user |-> e.user]

\* SSHConfigProvider.get_ssh_config, lines 62-69. The entries carry no
\* IdentityFile and no Port, so key_filename is None and port is 22.
SSHConfigProvider_get_ssh_config(file, host_alias) ==
    LET host_config == Lookup(file, host_alias)
    IN  [hostname |-> IF host_config.hostname = "None" THEN host_alias
                      ELSE host_config.hostname,
         username |-> host_config.user,
         key_filename |-> "None",
         port |-> 22]

\* health_check, line 192: `proxy_service.settings.ssh_host_alias is not None`.
AliasIsNotNone(st) == st.ssh_host_alias # "None"
\* DataProxyService._get_ssh_config, line 85: `if self.settings.ssh_host_alias:`.
UseAlias(st) == Truthy(st.ssh_host_alias)

\* DataProxyService._get_ssh_config, lines 84-96.
DataProxyService_get_ssh_config(st, file) ==
    IF UseAlias(st)
    THEN SSHConfigProvider_get_ssh_config(file, st.ssh_host_alias)
    ELSE [hostname |-> st.ssh_host,
          username |-> st.ssh_username,
          key_filename |-> st.ssh_key_path,
          port |-> 22]

\* --------------------------------------------------------- the remote host
\* A process on the remote host is its command line, a sequence of words.
\* The file server an earlier run of this program left behind was launched
\* by line 128 too.
LaunchCmd(port) == <<"python3", "-m", "http.server", Str(port)>>
\* line 125: the pattern given to pkill -f.
PkillPattern(port) == <<"python", "-m", "http.server", Str(port)>>

\* pkill -f: the pattern is searched in the command line. On words: some
\* run of words of the command line equals the pattern ("python3" is not
\* matched by "python" followed by a blank).
Matches(pattern, cmd) ==
    \E i \in 1..(Len(cmd) - Len(pattern) + 1) :
        SubSeq(cmd, i, i + Len(pattern) - 1) = pattern

\* The processes left after `pkill -f pattern` has run.
Pkill(procs, pattern) == {p \in procs : ~Matches(pattern, p.cmd)}

\* The processes after the launch command has run: python3 -m http.server
\* binds the port, and exits at once when a running process holds it.
PortOf(p) == p.cmd[Len(p.cmd)]
Launch(procs, port) ==
    IF \E p \in procs : PortOf(p) = Str(port)
    THEN procs
    ELSE procs \cup {[id |-> "new", cmd |-> LaunchCmd(port)]}

Stale(port) == [id |-> "stale", cmd |-> LaunchCmd(port)]

\* ------------------------------------------------------------------- Init
\* proxy_service is None, nothing is open, no request has arrived, no signal
\* has been delivered.
InitIdle ==
    /\ tunnel = "None"
    /\ ssh_client = "None"
    /\ client_open = FALSE
    /\ sock_open = FALSE
    /\ tun_session = FALSE
    /\ ssh_session = FALSE
    /\ startErr = "none"
    /\ raised = "none"
    /\ caller = "none"
    /\ log = <<>>
    /\ stopCalls = 0
    /\ startCalls = 0
    /\ leaked = {}
    /\ rpc = [r \in Req |-> "idle"]
    /\ rfile = [r \in Req |-> "none"]
    /\ conn = [r \in Req |-> FALSE]
    /\ content = [r \in Req |-> <<>>]
    /\ queue = [r \in Req |-> <<>>]
    /\ out = [r \in Req |-> <<>>]
    /\ rstatus = [r \in Req |-> 0]
    /\ rdetail = [r \in Req |-> "None"]
    /\ rmedia = [r \in Req |-> "None"]
    /\ rheaders = [r \in Req |-> {}]
    /\ cancelled = [r \in Req |-> FALSE]
    /\ upreq = [r \in Req |-> 0]
    /\ failed = [r \in Req |-> "none"]
    /\ settings = "None"
    /\ ssh_config = "None"
    /\ path = "none"
    /\ health = [status |-> "none"]
    /\ sig = "none"
    /\ exit_code = -1

\* The process before uvicorn runs the startup event, main having been run
\* with --ssh-host-alias gpu in an environment without PROXY_* variables;
\* the remote host runs no file server.
Init ==
    /\ pc = "boot"
    /\ InitIdle
    /\ size \in 0..MaxBody
    /\ argv = ArgvAlias
    /\ sshfile = SshFileGpu
    /\ environ = SetEnviron(EmptyEnv, ArgvAlias)
    /\ remote = {}

\* The process at the call of main, for every command line, environment and
\* ~/.ssh/config; the remote host may still run the file server of an
\* earlier run of the program on the same port.
InitMain ==
    /\ pc = "main"
    /\ InitIdle
    /\ size = 0
    /\ argv \in Argvs
    /\ sshfile \in SshFiles
    /\ environ \in PreEnvs
    /\ remote \in {{}, {Stale(argv.remote_port)}}

\* ------------------------------------------------------------------- main
\* The process runs.
Alive == exit_code = -1

\* The process ends with exit code `code`.
Exit(code) ==
    /\ exit_code' = code
    /\ UNCHANGED <<settings, ssh_config, path, health, remote, sig>>

\* main, lines 200-235, up to the call of uvicorn.run. parse_args ends the
\* process with code 2 unless exactly one option of the mutually exclusive
\* group is present, and so does parser.error at line 217. Assigning None
\* to os.environ raises TypeError, which ends the process with code 1: at
\* line 227 for an absent --ssh-host, at line 228 (PROXY_SSH_HOST has been
\* assigned by then) for an absent --ssh-username. Otherwise
\* signal_handler is installed for SIGINT and SIGTERM and the PROXY_*
\* variables are set.
main ==
    /\ pc = "main"
    /\ Alive
    /\ LET given == {o \in {"ssh_host_alias", "ssh_host"} : argv[o] # "None"}
       IN  IF Cardinality(given) # 1
           THEN Exit(2) /\ UNCHANGED environ
           ELSE IF Truthy(argv.ssh_host) /\ ~Truthy(argv.ssh_username)
           THEN Exit(2) /\ UNCHANGED environ
           ELSE IF ~Truthy(argv.ssh_host_alias) /\ argv.ssh_host = "None"
           THEN Exit(1) /\ UNCHANGED environ
           ELSE IF ~Truthy(argv.ssh_host_alias) /\ argv.ssh_username = "None"
           THEN /\ Exit(1)
                /\ environ' = [environ EXCEPT !["PROXY_SSH_HOST"] = argv.ssh_host]
           ELSE /\ environ' = SetEnviron(environ, argv)
                /\ UNCHANGED <<settings, ssh_config, path, health, remote, sig,
                               exit_code>>
    /\ pc' = IF exit_code' = -1 THEN "boot" ELSE "main"
    /\ UNCHANGED <<tunnel, ssh_client, client_open, sock_open, tun_session,
                   ssh_session, startErr, raised, caller, log, stopCalls,
                   startCalls, leaked>>
    /\ UNCHANGED <<envVars, reqVars>>

\* signal_handler, lines 196-198, the handler main installed: a signal that
\* arrives before uvicorn.run has put its own handlers in place ends the
\* process by sys.exit(0).
signal_handler ==
    /\ pc = "boot"
    /\ Alive
    /\ Exit(0)
    /\ UNCHANGED environ
    /\ UNCHANGED <<svcVars, envVars, reqVars>>

\* uvicorn's handler, in place of signal_handler while uvicorn.run serves:
\* the first SIGINT or SIGTERM asks the server to exit.
handle_exit ==
    /\ pc = "started"
    /\ Alive
    /\ sig = "none"
    /\ sig' = "should_exit"
    /\ UNCHANGED <<environ, settings, ssh_config, path, health, remote,
                   exit_code>>
    /\ UNCHANGED <<svcVars, envVars, reqVars>>

\* uvicorn's handler while the server is waiting for the requests in flight
\* before it runs the shutdown event: a further SIGINT makes it a forced
\* exit, a further SIGTERM changes nothing.
handle_exit_again ==
    /\ pc = "started"
    /\ Alive
    /\ sig = "should_exit"
    /\ \E s \in {"SIGINT", "SIGTERM"} :
          sig' = IF s = "SIGINT" THEN "force_exit" ELSE sig
    /\ UNCHANGED <<environ, settings, ssh_config, path, health, remote,
                   exit_code>>
    /\ UNCHANGED <<svcVars, envVars, reqVars>>

\* uvicorn.run has returned: after the shutdown event, or, on a forced exit,
\* without waiting for the requests in flight and without running the
\* shutdown event.
UvicornReturned ==
    \/ pc = "stopped" /\ caller = "shutdown"
    \/ pc = "started" /\ sig = "force_exit"

\* line 238 returns and main ends, or the signal uvicorn had captured is
\* delivered to signal_handler, which calls sys.exit(0): the process ends
\* with code 0. The handlers of requests still in flight end with it.
main_exit ==
    /\ UvicornReturned
    /\ Alive
    /\ Exit(0)
    /\ UNCHANGED environ
    /\ rpc' = [r \in Req |-> IF rpc[r] = "idle" THEN "idle" ELSE "done"]
    /\ conn' = [r \in Req |-> FALSE]
    /\ content' = [r \in Req |-> <<>>]
    /\ queue' = [r \in Req |-> <<>>]
    /\ UNCHANGED <<rfile, out, rstatus, rdetail, rmedia, rheaders, cancelled,
                   upreq, failed>>
    /\ UNCHANGED <<svcVars, envVars>>

\* ---------------------------------------------------- DataProxyService
\* startup_event up to the call of start: Settings() read from the
\* environment, and DataProxyService.__init__, which creates self.client
\* and resolves the SSH configuration; tunnel and ssh_client stay None.
startup_event ==
    /\ pc = "boot"
    /\ Alive
    /\ pc' = "constructed"
    /\ client_open' = TRUE
    /\ log' = Append(log, "resolve_config")
    /\ LET st == Settings(environ)
       IN  /\ settings' = st
           /\ ssh_config' = DataProxyService_get_ssh_config(st, sshfile)
           /\ path' = IF UseAlias(st) THEN "alias" ELSE "explicit"
    /\ UNCHANGED <<tunnel, ssh_client, sock_open, tun_session, ssh_session,
                   startErr, raised, caller, stopCalls, startCalls, leaked>>
    /\ UNCHANGED <<environ, health, remote, sig, exit_code>>
    /\ UNCHANGED <<envVars, reqVars>>

\* start's except branch, lines 133-135, taken when `step` raised:
\* `await self.stop()` runs before the `raise` of line 136.
StartExcept(step) ==
    /\ pc' = "stop_aclose"
    /\ startErr' = step
    /\ caller' = "start"
    /\ UNCHANGED raised

\* What is still open on the object self.tunnel refers to.
TunnelOpen ==
    (IF sock_open THEN {"sock"} ELSE {}) \cup
    (IF tun_session THEN {"tun_session"} ELSE {})

\* start, line 103: self.tunnel = SSHTunnelForwarder(...). A constructor that
\* raises leaves self.tunnel as it was (None on a first start). The
\* assignment drops the reference to a forwarder an earlier start left in
\* self.tunnel: what that one still has open stays open, out of stop's reach.
start_tunnel_ctor ==
    /\ pc = "constructed"
    /\ log' = Append(log, "tunnel_ctor")
    /\ \E ok \in BOOLEAN :
         IF ok
         THEN /\ tunnel' = "obj"
              /\ leaked' = leaked \cup TunnelOpen
              /\ sock_open' = FALSE
              /\ tun_session' = FALSE
              /\ pc' = "tunnel_start"
              /\ UNCHANGED <<startErr, caller, raised>>
         ELSE /\ StartExcept("tunnel_ctor")
              /\ UNCHANGED <<tunnel, leaked, sock_open, tun_session>>
    /\ UNCHANGED <<ssh_client, client_open, ssh_session, stopCalls, startCalls>>
    /\ UNCHANGED <<envVars, reqVars, procVars>>

\* start, line 111: self.tunnel.start(). On success the SSH transport and
\* the local listening socket are open. A start that raises may have got as
\* far as the transport, or the transport and the socket.
start_tunnel_start ==
    /\ pc = "tunnel_start"
    /\ log' = Append(log, "tunnel_start")
    /\ \E ok \in BOOLEAN :
         IF ok
         THEN /\ tun_session' = TRUE
              /\ sock_open' = TRUE
              /\ pc' = "ssh_connect"
              /\ UNCHANGED <<startErr, caller, raised>>
         ELSE /\ \E left \in {<<FALSE, FALSE>>, <<TRUE, FALSE>>, <<TRUE, TRUE>>} :
                   /\ tun_session' = left[1]
                   /\ sock_open' = left[2]
              /\ StartExcept("tunnel_start")
    /\ UNCHANGED <<tunnel, ssh_client, client_open, ssh_session, stopCalls, startCalls, leaked>>
    /\ UNCHANGED <<envVars, reqVars, procVars>>

\* start, lines 114-122: self.ssh_client = paramiko.SSHClient() and
\* connect(). A connect that raises (authentication, say) may leave the
\* transport of the client open. The assignment drops the reference to a
\* client an earlier start left in self.ssh_client, open or not.
start_ssh_connect ==
    /\ pc = "ssh_connect"
    /\ log' = Append(log, "ssh_connect")
    /\ ssh_client' = "obj"
    /\ \E ok \in BOOLEAN :
         IF ok
         THEN /\ ssh_session' = TRUE
              /\ pc' = "exec_pkill"
              /\ UNCHANGED <<startErr, caller, raised>>
         ELSE /\ ssh_session' \in BOOLEAN
              /\ StartExcept("ssh_connect")
    /\ leaked' = IF ssh_session THEN leaked \cup {"ssh_session"} ELSE leaked
    /\ UNCHANGED <<tunnel, client_open, sock_open, tun_session, stopCalls,
                   startCalls>>
    /\ UNCHANGED <<envVars, reqVars, procVars>>

\* start, line 125: exec_command of the pkill command. A command that was
\* issued runs on the remote host (taken here to have run by the time the
\* next command is issued); whether it found a process is not looked at.
start_exec_pkill ==
    /\ pc = "exec_pkill"
    /\ log' = Append(log, "exec_pkill")
    /\ \E ok \in BOOLEAN :
         IF ok
         THEN /\ pc' = "exec_launch"
              /\ remote' = Pkill(remote, PkillPattern(settings.remote_port))
              /\ UNCHANGED <<startErr, caller, raised>>
         ELSE /\ StartExcept("exec_pkill")
              /\ UNCHANGED remote
    /\ UNCHANGED <<tunnel, ssh_client, client_open, sock_open, tun_session,
                   ssh_session, stopCalls, startCalls, leaked>>
    /\ UNCHANGED <<environ, settings, ssh_config, path, health, sig, exit_code>>
    /\ UNCHANGED <<envVars, reqVars>>

\* start, lines 128-131: exec_command of the launch command, which starts
\* the file server on the remote host; start returns and the startup event
\* is complete.
start_exec_launch ==
    /\ pc = "exec_launch"
    /\ log' = Append(log, "exec_launch")
    /\ \E ok \in BOOLEAN :
         IF ok
         THEN /\ pc' = "started"
              /\ remote' = Launch(remote, settings.remote_port)
              /\ UNCHANGED <<startErr, caller, raised>>
         ELSE /\ StartExcept("exec_launch")
              /\ UNCHANGED remote
    /\ UNCHANGED <<tunnel, ssh_client, client_open, sock_open, tun_session,
                   ssh_session, stopCalls, startCalls, leaked>>
    /\ UNCHANGED <<environ, settings, ssh_config, path, health, sig, exit_code>>
    /\ UNCHANGED <<envVars, reqVars>>

\* ------------------------------------------------------------------- stop
\* The end of a call of stop, `err` being the error it raised ("none": it
\* returned). Called from start's except branch, a stop that returned is
\* followed by the `raise` of line 136, which re-raises the startup error;
\* a stop that raised there surfaces its own error.
AfterStop(err) ==
    /\ pc' = IF caller = "start" THEN "start_failed" ELSE "stopped"
    /\ raised' = IF err # "none" THEN err
                 ELSE IF caller = "start" THEN startErr ELSE "none"

\* stop, line 140: `if self.ssh_client:`.
SshClientTruthy == ssh_client # "None"

\* stop, line 142: `if self.tunnel:`.
TunnelTruthy == tunnel # "None"

\* stop, line 139: await self.client.aclose(). An aclose that raises has
\* marked the client closed before closing its transport, so the client is
\* closed all the same; nothing after it in stop runs.
stop_aclose ==
    /\ pc = "stop_aclose"
    /\ client_open' = FALSE
    /\ log' = Append(log, "aclose")
    /\ \E ok \in BOOLEAN :
         IF ok
         THEN /\ pc' = "stop_ssh"
              /\ UNCHANGED raised
         ELSE AfterStop("aclose_error")
    /\ UNCHANGED <<tunnel, ssh_client, sock_open, tun_session, ssh_session,
                   startErr, caller, stopCalls, startCalls, leaked>>
    /\ UNCHANGED <<envVars, reqVars, procVars>>

\* stop, lines 140-141: self.ssh_client.close() closes the SSH session of
\* the client. A close that raises may or may not have closed the session
\* by then; nothing after it in stop runs.
stop_ssh_close ==
    /\ pc = "stop_ssh"
    /\ IF SshClientTruthy
       THEN /\ log' = Append(log, "ssh_close")
            /\ \E ok \in BOOLEAN :
                 IF ok
                 THEN /\ ssh_session' = FALSE
                      /\ pc' = "stop_tunnel"
                      /\ UNCHANGED raised
                 ELSE /\ ssh_session' \in {ssh_session, FALSE}
                      /\ AfterStop("ssh_close_error")
       ELSE /\ pc' = "stop_tunnel"
            /\ UNCHANGED <<ssh_session, log, raised>>
    /\ UNCHANGED <<tunnel, ssh_client, client_open, sock_open, tun_session,
                   startErr, caller, stopCalls, startCalls, leaked>>
    /\ UNCHANGED <<envVars, reqVars, procVars>>

\* stop, lines 142-143: self.tunnel.stop() closes the listening socket and
\* the SSH transport of the forwarder in self.tunnel, whatever
\* tunnel.start() got to, and stop returns; a tunnel.stop() that raises
\* leaves them as they were.
stop_tunnel_stop ==
    /\ pc = "stop_tunnel"
    /\ IF TunnelTruthy
       THEN /\ log' = Append(log, "tunnel_stop")
            /\ \E ok \in BOOLEAN :
                 IF ok
                 THEN /\ sock_open' = FALSE
                      /\ tun_session' = FALSE
                      /\ AfterStop("none")
                 ELSE /\ UNCHANGED <<sock_open, tun_session>>
                      /\ AfterStop("tunnel_stop_error")
       ELSE /\ UNCHANGED <<sock_open, tun_session, log>>
            /\ AfterStop("none")
    /\ UNCHANGED <<tunnel, ssh_client, client_open, ssh_session, startErr,
                   caller, stopCalls, startCalls, leaked>>
    /\ UNCHANGED <<envVars, reqVars, procVars>>

\* line 238 with a graceful shutdown timeout of zero: the shutdown event
\* does not wait for the requests in flight.
DrainedAtOnce == TRUE
\* line 238: uvicorn is run with no graceful shutdown timeout, so it waits
\* for every request in flight to end before it runs the shutdown event.
Drained == \A r \in Req : rpc[r] \in {"idle", "done"}

\* shutdown_event, lines 156-159. uvicorn, asked to exit by a signal, closes
\* its listeners, waits for the requests in flight to end and runs the
\* shutdown event, unless the exit has been forced meanwhile.
shutdown_event ==
    /\ pc = "started"
    /\ Alive
    /\ sig = "should_exit"
    /\ Drained
    /\ pc' = "stop_aclose"
    /\ caller' = "shutdown"
    /\ UNCHANGED <<tunnel, ssh_client, client_open, sock_open, tun_session,
                   ssh_session, startErr, raised, log, stopCalls, startCalls, leaked>>
    /\ UNCHANGED <<envVars, reqVars, procVars>>

\* A caller of the class calls stop() on a service that was never started,
\* whose start failed, or that was stopped before.
stop_call ==
    /\ pc \in {"constructed", "start_failed", "stopped"}
    /\ stopCalls < MaxStopCalls
    /\ stopCalls' = stopCalls + 1
    /\ pc' = "stop_aclose"
    /\ caller' = "api"
    /\ raised' = "none"
    /\ UNCHANGED <<tunnel, ssh_client, client_open, sock_open, tun_session,
                   ssh_session, startErr, log, startCalls, leaked>>
    /\ UNCHANGED <<envVars, reqVars, procVars>>

\* A caller of the class calls start() on a service that is running, whose
\* start failed, or that was stopped. start, lines 98-136, has no guard: it
\* runs every step again. self.client is not created again (it is created
\* in __init__ only), so after a stop it stays closed.
start_call ==
    /\ pc \in {"started", "start_failed", "stopped"}
    /\ startCalls < MaxStartCalls
    /\ startCalls' = startCalls + 1
    /\ pc' = "constructed"
    /\ startErr' = "none"
    /\ raised' = "none"
    /\ caller' = "none"
    /\ UNCHANGED <<tunnel, ssh_client, client_open, sock_open, tun_session,
                   ssh_session, log, stopCalls, leaked>>
    /\ UNCHANGED <<envVars, reqVars, procVars>>

\* ------------------------------------------------------------- proxy_data
\* The transport failures of httpx at line 166, up to the response head
\* (connection refused or timed out, request not written, connection reset,
\* timed out or closed by the server before it answered) and while the body
\* is read (reset, timed out, or closed before the body was complete, which
\* is a RemoteProtocolError too); all are subclasses of httpx.HTTPError.
SendErrors == {"ConnectError", "ConnectTimeout", "WriteError", "ReadError",
               "ReadTimeout", "RemoteProtocolError"}
ReadErrors == {"ReadError", "ReadTimeout", "IncompleteBody"}
HTTPErrors == SendErrors \cup ReadErrors

\* line 182, str(e) of a transport failure: a timeout, a failed write and a
\* connection reset carry no message; a body cut short names the number of
\* bytes received and the number the response head announced.
ErrorText(e, received, expected) ==
    CASE e = "ConnectError" -> "All connection attempts failed"
      [] e = "RemoteProtocolError" ->
            "Server disconnected without sending a response."
      [] e = "IncompleteBody" ->
            "peer closed connection without sending complete message body"
            \o " (received " \o ToString(received) \o " bytes, expected "
            \o ToString(expected) \o ")"
      [] OTHER -> ""

\* str() of the HTTPException raised at line 169.
NotFound == "404: File not found"

\* line 180 as `except Exception`.
CaughtAny(e) == TRUE
\* line 180 as `except httpx.ConnectError`.
CaughtConnectOnly(e) == e = "ConnectError"
\* line 180: `except httpx.HTTPError as e` catches the transport failures and
\* not the HTTPException of line 169.
Caught(e) == e \in HTTPErrors

\* line 164: the path requested upstream, /{filename}.
Url(filename) == filename

\* line 172: response.aiter_bytes() on a response whose body client.get has
\* read in full: the whole content as one chunk, nothing for an empty body.
Chunks(c) == IF Len(c) = 0 THEN <<>> ELSE <<c>>

\* line 178 without the test: every header is passed on.
KeepHeaderAll(k) == TRUE
\* line 178: `k.lower() != 'content-length'`.
KeepHeader(k) == Lower(k) # "content-length"

\* line 178: the headers given to StreamingResponse.
ProxyHeaders(items) == {kv \in items : KeepHeader(kv[1])}

\* line 177: response.headers.get('content-type'), a lookup that ignores the
\* letter case of the name; "None" when there is no such header.
GetContentType(items) ==
    LET ct == {kv \in items : Lower(kv[1]) = "content-type"}
    IN  IF ct = {} THEN "None" ELSE (CHOOSE kv \in ct : TRUE)[2]

\* line 165 with one client shared by all the requests.
SharedClient(r) == 1
\* line 165: `async with httpx.AsyncClient() as client`: every request opens
\* a client of its own; ClientOf(r) is the client request r uses.
ClientOf(r) == r

\* line 165 with the client left open on the way out.
AsyncWithLeak(r) == conn
\* line 165: leaving the `async with` block, by return or by exception,
\* closes the client and its upstream connection.
AsyncWithExit(r) == [conn EXCEPT ![ClientOf(r)] = FALSE]

\* A request made on a client that has been closed, and its str().
ClientClosed == "RuntimeError"
ClientClosedText == "Cannot send a request, as the client has been closed."

\* The handler with a failed send tried again instead of raised.
RaiseRetry(r, e, msg) ==
    /\ rpc' = [rpc EXCEPT ![r] = IF e \in SendErrors THEN "send" ELSE "done"]
    /\ conn' = IF e \in SendErrors THEN conn ELSE AsyncWithExit(r)
    /\ content' = [content EXCEPT ![r] = <<>>]
    /\ rstatus' = [rstatus EXCEPT ![r] =
                     IF e \in SendErrors THEN @
                     ELSE IF Caught(e) THEN 500 ELSE IF e = NotFound THEN 404 ELSE 500]
    /\ rdetail' = [rdetail EXCEPT ![r] =
                     IF e \in SendErrors THEN @
                     ELSE IF Caught(e) THEN msg
                     ELSE IF e = NotFound THEN "File not found"
                     ELSE "Internal Server Error"]

\* The handler ends with exception e, whose str() is msg, raised inside the
\* `try` (and inside the
\* `async with`, which closes the client on the way out). An HTTPError is
\* turned into HTTPException(500, str(e)); the HTTPException of line 169
\* passes; anything else is answered by the framework's 500 page.
Raise(r, e, msg) ==
    /\ rpc' = [rpc EXCEPT ![r] = "done"]
    /\ conn' = AsyncWithExit(r)
    /\ content' = [content EXCEPT ![r] = <<>>]
    /\ rstatus' = [rstatus EXCEPT ![r] =
                     IF Caught(e) THEN 500 ELSE IF e = NotFound THEN 404 ELSE 500]
    /\ rdetail' = [rdetail EXCEPT ![r] =
                     IF Caught(e) THEN msg
                     ELSE IF e = NotFound THEN "File not found"
                     ELSE "Internal Server Error"]

\* lines 149-154 with start not awaited: requests are served once the
\* service object exists.
AcceptingUnawaited == pc \notin {"boot", "start_failed", "stopped"}
\* lines 149-154: uvicorn serves requests once the startup event, which
\* awaits start, has completed without an error, and until it is asked to
\* exit.
Accepting == pc = "started" /\ sig = "none"

\* health_check, lines 184-194.
health_check ==
    /\ Accepting
    /\ health' = [status |-> "OK",
                  hostname |-> ssh_config.hostname,
                  username |-> ssh_config.username,
                  using_ssh_config |-> AliasIsNotNone(settings)]
    /\ UNCHANGED <<environ, settings, ssh_config, path, remote, sig, exit_code>>
    /\ UNCHANGED <<svcVars, envVars, reqVars>>

\* lines 162-165: the request arrives (only once startup has completed and
\* before shutdown), the URL is built and the request's own
\* httpx.AsyncClient is opened. Requests are numbered in the order they
\* arrive.
proxy_data_begin(r) ==
    /\ Accepting
    /\ rpc[r] = "idle"
    /\ \A q \in Req : q < r => rpc[q] # "idle"
    /\ \E f \in Files : rfile' = [rfile EXCEPT ![r] = f]
    /\ rpc' = [rpc EXCEPT ![r] = "send"]
    /\ conn' = [conn EXCEPT ![ClientOf(r)] = TRUE]
    /\ UNCHANGED <<content, queue, out, rstatus, rdetail, rmedia, rheaders,
                   cancelled, upreq, failed>>
    /\ UNCHANGED <<svcVars, envVars, procVars>>

\* line 166, first part: client.get sends the request through the tunnel's
\* local port. It is answered (status and headers arrive) or the transport
\* fails (connection refused, timeout, connection reset or tunnel gone
\* before the response head). A client that has been
\* closed refuses to send.
proxy_data_send(r) ==
    /\ rpc[r] = "send"
    /\ IF ~conn[ClientOf(r)]
       THEN /\ Raise(r, ClientClosed, ClientClosedText)
            /\ UNCHANGED <<upreq, failed>>
       ELSE /\ upreq' = [upreq EXCEPT ![r] = @ + 1]
            /\ \/ /\ rpc' = [rpc EXCEPT ![r] = "recv"]
                  /\ UNCHANGED <<conn, content, rstatus, rdetail, failed>>
               \/ \E e \in SendErrors :
                     /\ failed' = [failed EXCEPT ![r] = e]
                     /\ Raise(r, e, ErrorText(e, 0, 0))
    /\ UNCHANGED <<rfile, queue, out, rmedia, rheaders, cancelled>>
    /\ UNCHANGED <<svcVars, envVars, procVars>>

\* line 166, second part: client.get reads the response body into
\* response.content, NetChunk bytes at a time, until it is complete; a read
\* may fail, the connection having delivered `got` bytes of the body by
\* then, any number short of the whole.
proxy_data_recv(r) ==
    /\ rpc[r] = "recv"
    /\ LET body == UpstreamBody(Url(rfile[r]))
           have == Len(content[r])
           upto == IF have + NetChunk < Len(body) THEN have + NetChunk ELSE Len(body)
       IN  /\ have < Len(body)
           /\ IF ~conn[ClientOf(r)]
              THEN /\ Raise(r, ClientClosed, ClientClosedText)
                   /\ UNCHANGED failed
              ELSE \/ /\ content' = [content EXCEPT ![r] = SubSeq(body, 1, upto)]
                      /\ UNCHANGED <<rpc, conn, rstatus, rdetail, failed>>
                   \/ \E e \in ReadErrors, got \in have..(Len(body) - 1) :
                         /\ failed' = [failed EXCEPT ![r] = e]
                         /\ Raise(r, e, ErrorText(e, got, Len(body)))
    /\ UNCHANGED <<rfile, queue, out, rmedia, rheaders, cancelled, upreq>>
    /\ UNCHANGED <<svcVars, envVars, procVars>>

\* lines 168-179: client.get has returned. A 404 raises HTTPException(404);
\* any other status returns StreamingResponse (status 200, its default) over
\* iterfile, and the `async with` closes the client.
proxy_data_respond(r) ==
    /\ rpc[r] = "recv"
    /\ LET f == Url(rfile[r])
       IN  /\ Len(content[r]) = Len(UpstreamBody(f))
           /\ IF UpstreamStatus(f) = 404
              THEN /\ Raise(r, NotFound, NotFound)
                   /\ UNCHANGED <<queue, rmedia, rheaders>>
              ELSE /\ rpc' = [rpc EXCEPT ![r] = "streaming"]
                   /\ conn' = AsyncWithExit(r)
                   /\ rstatus' = [rstatus EXCEPT ![r] = 200]
                   /\ rmedia' = [rmedia EXCEPT ![r] = GetContentType(UpstreamHeaders(f))]
                   /\ rheaders' = [rheaders EXCEPT ![r] = ProxyHeaders(UpstreamHeaders(f))]
                   /\ queue' = [queue EXCEPT ![r] = Chunks(content[r])]
                   /\ UNCHANGED <<content, rdetail>>
    /\ UNCHANGED <<rfile, out, cancelled, upreq, failed>>
    /\ UNCHANGED <<svcVars, envVars, procVars>>

\* lines 171-173: StreamingResponse takes the next chunk from iterfile and
\* sends it to the caller; after the last one the response is complete and
\* the buffered content is dropped.
iterfile(r) ==
    /\ rpc[r] = "streaming"
    /\ ~cancelled[r]
    /\ IF queue[r] = <<>>
       THEN /\ rpc' = [rpc EXCEPT ![r] = "done"]
            /\ content' = [content EXCEPT ![r] = <<>>]
            /\ UNCHANGED <<queue, out>>
       ELSE /\ out' = [out EXCEPT ![r] = Append(@, Head(queue[r]))]
            /\ queue' = [queue EXCEPT ![r] = Tail(@)]
            /\ UNCHANGED <<rpc, content>>
    /\ UNCHANGED <<rfile, conn, rstatus, rdetail, rmedia, rheaders, cancelled,
                   upreq, failed>>
    /\ UNCHANGED <<svcVars, envVars, procVars>>

\* The caller disconnects while its request is in flight. The handler is not
\* interrupted: it runs on to its return or its exception.
caller_disconnect(r) ==
    /\ rpc[r] \in {"send", "recv", "streaming"}
    /\ ~cancelled[r]
    /\ cancelled' = [cancelled EXCEPT ![r] = TRUE]
    /\ UNCHANGED <<rpc, rfile, conn, content, queue, out, rstatus, rdetail,
                   rmedia, rheaders, upreq, failed>>
    /\ UNCHANGED <<svcVars, envVars, procVars>>

\* StreamingResponse of a caller that has disconnected: the response task
\* is cancelled, iterfile is closed and yields nothing more.
stream_abort(r) ==
    /\ rpc[r] = "streaming"
    /\ cancelled[r]
    /\ rpc' = [rpc EXCEPT ![r] = "done"]
    /\ queue' = [queue EXCEPT ![r] = <<>>]
    /\ content' = [content EXCEPT ![r] = <<>>]
    /\ UNCHANGED <<rfile, conn, out, rstatus, rdetail, rmedia, rheaders,
                   cancelled, upreq, failed>>
    /\ UNCHANGED <<svcVars, envVars, procVars>>

\* ---------------------------------------------------------- specifications
\* The lifecycle: startup_event with start, shutdown_event with stop.
NextService ==
    \/ startup_event
    \/ start_tunnel_ctor
    \/ start_tunnel_start
    \/ start_ssh_connect
    \/ start_exec_pkill
    \/ start_exec_launch
    \/ stop_aclose
    \/ stop_ssh_close
    \/ stop_tunnel_stop
    \/ shutdown_event
    \/ signal_handler
    \/ handle_exit
    \/ main_exit

\* The requests.
NextRequests ==
    \/ \E r \in Req : proxy_data_begin(r)
    \/ \E r \in Req : proxy_data_send(r)
    \/ \E r \in Req : proxy_data_recv(r)
    \/ \E r \in Req : proxy_data_respond(r)
    \/ \E r \in Req : iterfile(r)
    \/ \E r \in Req : caller_disconnect(r)
    \/ \E r \in Req : stream_abort(r)

Next == NextService \/ NextRequests \/ health_check

Spec == Init /\ [][Next]_vars

\* The class used directly: the lifecycle, and stop or start called again at
\* any time the object is at rest.
NextApi == NextService \/ stop_call \/ start_call

SpecApi == Init /\ [][NextApi]_vars

\* The application with further signals during the shutdown.
NextSig == Next \/ handle_exit_again

SpecSig == Init /\ [][NextSig]_vars

\* The program from main on, with GET /health.
NextMain == main \/ NextService \/ health_check

SpecMain == InitMain /\ [][NextMain]_vars

\* ================================================================ claims
RECURSIVE Concat(_)
\* The bytes of a sequence of chunks, in order.
Concat(chunks) ==
    IF chunks = <<>> THEN <<>> ELSE Head(chunks) \o Concat(Tail(chunks))

StartupSteps == {"resolve_config", "tunnel_ctor", "tunnel_start", "ssh_connect",
                 "exec_pkill", "exec_launch"}
StartupOrder == <<"resolve_config", "tunnel_ctor", "tunnel_start", "ssh_connect",
                  "exec_pkill", "exec_launch">>
IsStartupStep(x) == x \in StartupSteps
Logged(x) == \E i \in 1..Len(log) : log[i] = x

\* C1: when a step of start has failed and an error has surfaced to the
\* caller of start, the tunnel's listening socket, the tunnel's SSH
\* transport and the SSH session of ssh_client are all closed.
C1_StartFailureReleasesAll ==
    pc = "start_failed" =>
        /\ startErr # "none"
        /\ ~sock_open
        /\ ~tun_session
        /\ ~ssh_session

\* Everything the service has opened that is still open: on the forwarder
\* and the SSH client it refers to, and on those an earlier start left
\* behind.
ServiceOpen ==
    TunnelOpen \cup (IF ssh_session THEN {"ssh_session"} ELSE {}) \cup leaked

\* C2: every call of stop, on a service in any state (never started, start
\* failed at any step, started, already stopped, started again), returns
\* without raising and leaves no listening socket and no SSH session of the
\* service open; the stop that start runs in its failure branch does not
\* raise either.
C2_StopIdempotent ==
    /\ pc = "stopped" =>
          /\ raised = "none"
          /\ ServiceOpen = {}
    /\ pc = "start_failed" =>
          /\ raised = startErr
          /\ ServiceOpen = {}

\* C3: the startup steps are attempted in the order resolve config, open
\* tunnel (construct, start), ensure remote server (connect, pkill, launch),
\* each at most once; a GET /data request is handled and a GET /health
\* request is answered only after all of them have been done without a
\* failure; after a failed startup neither is ever handled.
C3_StartupBeforeRequests ==
    /\ LET done == SelectSeq(log, IsStartupStep)
       IN  /\ Len(done) <= Len(StartupOrder)
           /\ \A i \in 1..Len(done) : done[i] = StartupOrder[i]
    /\ ((\E r \in Req : rpc[r] # "idle") \/ health.status # "none") =>
          /\ SelectSeq(log, IsStartupStep) = StartupOrder
          /\ startErr = "none"
    /\ (\E r \in Req : rpc[r] \notin {"idle", "done"}) =>
          /\ pc = "started"
          /\ sock_open /\ tun_session
    /\ startErr # "none" =>
          /\ \A r \in Req : rpc[r] = "idle"
          /\ health.status = "none"

\* C3 witness: after a complete startup a GET /data request has been
\* answered with 200 and a GET /health request has been answered.
C3_Witness ==
    /\ \E r \in Req : rpc[r] = "done" /\ rstatus[r] = 200
    /\ health.status = "OK"
    /\ SelectSeq(log, IsStartupStep) = StartupOrder

\* Upstream body bytes request r holds in memory and has not yet forwarded.
Held(r) ==
    IF rpc[r] \in {"recv", "streaming"}
    THEN Len(content[r]) - Len(Concat(out[r]))
    ELSE 0

\* C4: while a request is proxied, the upstream body data held and not yet
\* forwarded never exceeds one chunk (NetChunk bytes), however long the
\* body is.
C4_HeldWithinOneChunk ==
    \A r \in Req : Held(r) <= NetChunk

ContentLengthNames == {"content-length", "Content-Length", "CONTENT-LENGTH"}
ContentTypeNames == {"content-type", "Content-Type", "CONTENT-TYPE"}
IsPrefix(a, b) == Len(a) <= Len(b) /\ SubSeq(b, 1, Len(a)) = a

\* C5: for every request answered with 200, the headers given to the caller
\* are the header lines the upstream server wrote (names being compared
\* without regard to letter case, and given in lower case) without the
\* content-length line, whatever its letter case, the content-type line is
\* among them and is the media type; the bytes forwarded are at all times a
\* prefix of the upstream body and, once the response is complete and the
\* caller has not disconnected, the whole body.
C5_RoundTrip ==
    \A r \in Req :
        rstatus[r] = 200 =>
            LET up == WireHeaders(rfile[r])
                body == UpstreamBody(rfile[r])
            IN  /\ rheaders[r] = {<<Lower(kv[1]), kv[2]>> :
                                     kv \in {x \in up : x[1] \notin ContentLengthNames}}
                /\ \A kv \in up : kv[1] \in ContentTypeNames =>
                       /\ <<Lower(kv[1]), kv[2]>> \in rheaders[r]
                       /\ rmedia[r] = kv[2]
                /\ IsPrefix(Concat(out[r]), body)
                /\ (rpc[r] = "done" /\ ~cancelled[r]) => Concat(out[r]) = body

\* C5 witness: the three bytes of f1 have been delivered, with f1's content
\* type and without its Content-Length.
C5_Witness ==
    \E r \in Req :
        /\ rpc[r] = "done" /\ rstatus[r] = 200 /\ rfile[r] = "f1"
        /\ size = 3
        /\ Concat(out[r]) = <<1, 2, 3>>
        /\ rmedia[r] = "application/pdf"
        /\ rheaders[r] = {<<"content-type", "application/pdf">>, <<"etag", "f1">>}

\* C6: a request whose upstream answer has status 404 is never streamed, and
\* once the answer has been received the caller gets 404 with the detail
\* "File not found".
C6_NotFoundPropagates ==
    \A r \in Req :
        (rpc[r] # "idle" /\ UpstreamStatus(rfile[r]) = 404) =>
            /\ rpc[r] # "streaming"
            /\ out[r] = <<>>
            /\ (rpc[r] = "done" /\ failed[r] = "none") =>
                   rstatus[r] = 404 /\ rdetail[r] = "File not found"

\* C6 witness: a request for the missing path has been answered with 404.
C6_Witness ==
    \E r \in Req :
        /\ rpc[r] = "done" /\ rfile[r] = "nofile" /\ failed[r] = "none"
        /\ rstatus[r] = 404 /\ rdetail[r] = "File not found"

\* C7: a request that met a transport failure, while connecting or while the
\* body was read, ends with status 500 carrying the text of the error (its
\* str, which is empty for a timeout and a reset, and which for a body cut
\* short names some number of bytes received and the length of that body)
\* and with nothing forwarded; a response with status 200 met no transport
\* failure and carries the whole upstream body.
C7_TransportFailureIs500 ==
    \A r \in Req :
        /\ failed[r] # "none" =>
              /\ rpc[r] = "done"
              /\ rstatus[r] = 500
              /\ LET expected == Len(UpstreamBody(rfile[r]))
                 IN  \E received \in 0..expected :
                        rdetail[r] = ErrorText(failed[r], received, expected)
              /\ out[r] = <<>>
        /\ rstatus[r] = 200 => failed[r] = "none"
        /\ rpc[r] = "streaming" =>
              Concat(out[r]) \o Concat(queue[r]) = UpstreamBody(rfile[r])

\* C7 witness: the server closed the connection after two of the three
\* bytes of f1, and the caller got 500 with the text of the error.
C7_Witness ==
    \E r \in Req :
        /\ rpc[r] = "done" /\ rfile[r] = "f1" /\ failed[r] = "IncompleteBody"
        /\ size = 3 /\ upreq[r] = 1
        /\ rstatus[r] = 500
        /\ rdetail[r] = "peer closed connection without sending complete message body (received 2 bytes, expected 3)"

\* Everything the model holds about request r.
ReqState(r) ==
    <<rpc[r], rfile[r], content[r], queue[r], out[r], rstatus[r], rdetail[r],
      rmedia[r], rheaders[r], cancelled[r], upreq[r], failed[r]>>

C8_OwnContent ==
    \A r \in Req :
        (/\ rpc[r] = "done"
         /\ failed[r] = "none"
         /\ ~cancelled[r]
         /\ UpstreamStatus(rfile[r]) = 200) =>
            /\ rstatus[r] = 200
            /\ Concat(out[r]) = UpstreamBody(rfile[r])

C8_StepIsLocal ==
    \A r \in Req :
        ReqState(r)' # ReqState(r) =>
            /\ svcVars' = svcVars
            /\ \A q \in Req \ {r} : ReqState(q)' = ReqState(q) /\ conn'[q] = conn[q]

\* C8: under every interleaving of the steps of overlapping requests, each
\* request that met no transport failure and whose caller stayed connected
\* completes with status 200 and the content of its own file; and a step of
\* one request (a failure and a disconnection included) changes neither the
\* state of any other request nor the state of the service.
C8_RequestsIndependent == []C8_OwnContent /\ [][C8_StepIsLocal]_vars

\* C8 witness: request 2, which arrived after request 1, has already failed
\* with a read error while request 1 is still in flight, streaming the whole
\* of f1.
C8_Witness ==
    /\ size = 3
    /\ rpc[1] = "streaming" /\ rfile[1] = "f1" /\ queue[1] = <<(<<1, 2, 3>>)>>
    /\ rpc[2] = "done" /\ rfile[2] = "f2" /\ failed[2] = "ReadError"
    /\ pc = "started"

\* A step of the handler of request r.
HandlerStep(r) ==
    proxy_data_send(r) \/ proxy_data_recv(r) \/ proxy_data_respond(r)

C9_Released ==
    \A r \in Req :
        /\ rpc[r] \in {"idle", "streaming", "done"} => ~conn[r]
        /\ conn[r] => ENABLED HandlerStep(r)

\* What the handler of request r has still to do before it closes its
\* upstream connection: send the request, read the rest of the body, leave.
Remaining(r) ==
    IF conn[r]
    THEN (IF rpc[r] = "send" THEN 1 ELSE 0)
         + (Len(UpstreamBody(rfile[r])) - Len(content[r])) + 1
    ELSE 0

C9_Step ==
    \A r \in Req :
        /\ cancelled[r] => out'[r] = out[r]
        /\ (conn[r] /\ <<rpc[r], content[r]>>' # <<rpc[r], content[r]>>) =>
               Remaining(r)' < Remaining(r)

\* C9: once the caller has disconnected no further chunk is forwarded for
\* its request; the request's upstream connection is closed whenever the
\* handler is not running (before it, while the response is streamed, after
\* the request has ended); and while it is open the handler always has a
\* step to take, each step of the handler bringing it strictly closer to
\* the close, so that the connection is released after finitely many steps.
C9_DisconnectReleases == []C9_Released /\ [][C9_Step]_vars

\* C9 witness: the caller of a request for f1 disconnected while the handler
\* ran; the request has ended with nothing forwarded and its upstream
\* connection closed.
C9_Witness ==
    \E r \in Req :
        /\ cancelled[r] /\ rpc[r] = "done" /\ rstatus[r] = 200
        /\ rfile[r] = "f1" /\ size = 3
        /\ out[r] = <<>>
        /\ ~conn[r]

\* C10: when the stop run by the shutdown event has ended, by returning or
\* by raising, the SSH session and then the tunnel (its listening socket and
\* its transport) have been released, in that order, also when an earlier
\* release failed.
C10_ShutdownReleasesAll ==
    (pc = "stopped" /\ caller = "shutdown") =>
        /\ ~ssh_session
        /\ ~sock_open
        /\ ~tun_session
        /\ \E i, j \in 1..Len(log) :
              i < j /\ log[i] = "ssh_close" /\ log[j] = "tunnel_stop"

\* C11: when the process has ended after an exit signal that arrived while
\* the service was started, its exit code is 0 and stop has run before:
\* the release calls were made and the SSH session, the tunnel's listening
\* socket and its transport are closed.
C11_SignalExitAfterTeardown ==
    (exit_code # -1 /\ sig # "none") =>
        /\ exit_code = 0
        /\ Logged("ssh_close") /\ Logged("tunnel_stop")
        /\ ~ssh_session /\ ~sock_open /\ ~tun_session

\* C12: once the SSH configuration has been resolved, from an alias (found
\* in ~/.ssh/config with or without a user, not found, no file) or from
\* explicit parameters, its hostname and its username are both non-empty.
C12_ResolvedSpecComplete ==
    path # "none" =>
        /\ Truthy(ssh_config.hostname)
        /\ Truthy(ssh_config.username)

\* C13: an answer of GET /health has using_ssh_config true exactly when the
\* configuration was resolved on the alias path; its hostname and username
\* are then what ~/.ssh/config gives for the alias, and otherwise the
\* ssh_host and ssh_username of the settings.
C13_HealthReflectsPath ==
    health.status = "OK" =>
        /\ health.using_ssh_config <=> (path = "alias")
        /\ path = "alias" =>
              /\ health.hostname = Lookup(sshfile, settings.ssh_host_alias).hostname
              /\ health.username = Lookup(sshfile, settings.ssh_host_alias).user
        /\ path = "explicit" =>
              /\ health.hostname = settings.ssh_host
              /\ health.username = settings.ssh_username

\* C14: once the tunnel and the SSH session are up and the remote commands
\* are being issued, start does not enter its failure branch whatever
\* becomes of the commands: the tunnel stays open and start completes.
C14_RemoteCommandFailureNonFatal ==
    Logged("exec_pkill") =>
        /\ startErr = "none"
        /\ pc # "start_failed"
        /\ pc \in {"exec_launch", "started"} => sock_open /\ tun_session

\* C15: when the launch command is about to be issued no file server of an
\* earlier run is left on remote_port, and when start has completed the
\* file server it launched is the one process serving on remote_port.
C15_OneFreshRemoteServer ==
    /\ pc = "exec_launch" =>
          \A p \in remote : PortOf(p) # Str(settings.remote_port)
    /\ pc = "started" =>
          remote = {[id |-> "new", cmd |-> LaunchCmd(settings.remote_port)]}

\* C16: the settings read at startup never carry both ssh_host_alias and
\* ssh_host, and the branch _get_ssh_config takes is the one of the option
\* given on the command line.
C16_OneResolutionPath ==
    path # "none" =>
        /\ ~(settings.ssh_host_alias # "None" /\ settings.ssh_host # "None")
        /\ path = IF argv.ssh_host_alias # "None" THEN "alias" ELSE "explicit"

\* The status of the service: Unstarted until start is entered, Starting
\* while start runs (its failure branch included), Running once start has
\* returned, Stopping while the stop of the shutdown event runs, then
\* Stopped; Failed once start has raised.
Status ==
    CASE pc \in {"main", "boot", "constructed"} -> "Unstarted"
      [] pc \in {"tunnel_start", "ssh_connect", "exec_pkill", "exec_launch"}
            -> "Starting"
      [] pc \in {"stop_aclose", "stop_ssh", "stop_tunnel"}
            -> IF caller = "start" THEN "Starting" ELSE "Stopping"
      [] pc = "started" -> "Running"
      [] pc = "start_failed" -> "Failed"
      [] pc = "stopped" -> "Stopped"

StatusEdges ==
    {<<"Unstarted", "Starting">>, <<"Starting", "Running">>,
     <<"Running", "Stopping">>, <<"Stopping", "Stopped">>,
     <<"Starting", "Failed">>}

\* A step of start is attempted.
StartStepTaken ==
    /\ Len(log') = Len(log) + 1
    /\ log'[Len(log')] \in StartupSteps \ {"resolve_config"}

C17_Step ==
    /\ Status' # Status => <<Status, Status'>> \in StatusEdges
    /\ StartStepTaken => Status \in {"Unstarted", "Starting"}
    /\ \A r \in Req : ReqState(r)' # ReqState(r) => Status = "Running"

\* C17: the status of the service changes only along Unstarted -> Starting
\* -> Running -> Stopping -> Stopped and Starting -> Failed (so a Failed or
\* Stopped service never runs again); a step of start is taken only on a
\* service that is Unstarted or Starting; and every step of a request, and
\* every request in flight, is in Running.
C17_StatusEdges ==
    /\ [][C17_Step]_vars
    /\ [](\A r \in Req : rpc[r] \notin {"idle", "done"} => Status = "Running")

\* C17 witness: the service has gone through every status up to Stopped,
\* having answered a request with 200 while Running.
C17_Witness ==
    /\ pc = "stopped" /\ caller = "shutdown"
    /\ \E r \in Req : rstatus[r] = 200 /\ rpc[r] = "done"
    /\ SelectSeq(log, IsStartupStep) = StartupOrder

\* The number of times x was attempted.
Attempts(x) == Cardinality({i \in 1..Len(log) : log[i] = x})

\* C18: in one start every step (tunnel construction and start, SSH
\* connect, termination command, launch command) is attempted at most once,
\* also when it failed; a request sends at most one request upstream, and
\* a request that met a transport failure has ended with that one attempt.
C18_NoRetry ==
    /\ \A x \in StartupSteps : Attempts(x) <= 1
    /\ startErr # "none" => Attempts(startErr) = 1
    /\ \A r \in Req :
          /\ upreq[r] <= 1
          /\ failed[r] # "none" => rpc[r] = "done" /\ upreq[r] = 1

\* C18 witness: the SSH connect of one start failed, or a request's upstream
\* connection attempt timed out: here the latter, with the request ended
\* after its single attempt.
C18_Witness ==
    \E r \in Req :
        /\ failed[r] = "ConnectTimeout" /\ rpc[r] = "done"
        /\ upreq[r] = 1 /\ rstatus[r] = 500

\* C19: a request that is answered with status 200 had an upstream answer
\* with a success status.
C19_OnlySuccessIs200 ==
    \A r \in Req :
        rstatus[r] = 200 => UpstreamStatus(Url(rfile[r])) \in 200..299

\* C20: the error that has surfaced from a failed start is the error of the
\* step that failed, also when the stop run in the failure branch raised.
C20_OriginalErrorSurfaces ==
    pc = "start_failed" => raised = startErr

====
